---- MODULE Spec2Model ----
(***************************************************************************)
(* Model of the HERMES robot firmware (src/firmware/main.py) and of the    *)
(* MotorDriver variant of src/firmware/drivers.py.                         *)
(*                                                                         *)
(* Units: the wall clock (time.time()) is counted in tenths of a second;   *)
(* the gyro rate in quarters of a degree per second; one navigation period *)
(* (20 ms) is the unit of dt; PID outputs are kept in tenths of a duty     *)
(* step until int() truncates them.                                        *)
(***************************************************************************)
EXTENDS Integers, Sequences, FiniteSets, TLC

(***************************************************************************)
(* Bounds of the model                                                     *)
(***************************************************************************)
MaxTime == 21
MaxYaw == 3
MaxIntegral == 3
MaxTicks == 130000
MaxCalSamples == 2
MaxWdTime == 41
MaxMsgs == 3

(***************************************************************************)
(* Bit arithmetic on bytes                                                 *)
(***************************************************************************)
RECURSIVE BitAndN(_, _, _)
BitAndN(a, b, n) ==
    IF n = 0 THEN 0
    ELSE (IF a % 2 = 1 /\ b % 2 = 1 THEN 1 ELSE 0)
         + 2 * BitAndN(a \div 2, b \div 2, n - 1)

BitAnd(a, b) == BitAndN(a, b, 8)

BitOr(a, b) == a + b - BitAnd(a, b)

(***************************************************************************)
(* Configuration                                                           *)
(***************************************************************************)
Motors == 1 .. 4
Chips == {1, 2}
Directions == {"horario", "antihorario"}

\* config.py: PCF_CONTROL_BITS, keyed "m<motor>_<direction>"; .get(key, 0xFF)
PCF_CONTROL_BITS(m, d) ==
    CASE m = 1 /\ d = "horario"     -> 246   \* 0b11110110
      [] m = 1 /\ d = "antihorario" -> 250   \* 0b11111010
      [] m = 2 /\ d = "horario"     -> 231   \* 0b11100111
      [] m = 2 /\ d = "antihorario" -> 219   \* 0b11011011
      [] m = 3 /\ d = "horario"     -> 250   \* 0b11111010
      [] m = 3 /\ d = "antihorario" -> 246   \* 0b11110110
      [] m = 4 /\ d = "horario"     -> 219   \* 0b11011011
      [] m = 4 /\ d = "antihorario" -> 231   \* 0b11100111
      [] OTHER -> 255

\* the chip a motor's direction bits live on: 1 if m_num <= 2 else 2
ChipOf(m) == IF m <= 2 THEN 1 ELSE 2

MAX_PWM == 1023
PCF_RESET == 255

\* the movement table of the firmware configuration: per motor (pwm, direction)
ROBOT_MOVEMENTS ==
    [adelante  |-> [m \in Motors |-> [pwm |-> MAX_PWM, direction |-> "horario"]],
     atras     |-> [m \in Motors |-> [pwm |-> MAX_PWM, direction |-> "antihorario"]],
     izquierda |-> [m \in Motors |-> [pwm |-> MAX_PWM,
                     direction |-> IF m <= 2 THEN "antihorario" ELSE "horario"]],
     derecha   |-> [m \in Motors |-> [pwm |-> MAX_PWM,
                     direction |-> IF m <= 2 THEN "horario" ELSE "antihorario"]]]

Movements == DOMAIN ROBOT_MOVEMENTS

\* str.lower() on the command strings the ground station sends
Lower(s) ==
    CASE s = "FORWARD"  -> "forward"
      [] s = "BACKWARD" -> "backward"
      [] s = "LEFT"     -> "left"
      [] s = "RIGHT"    -> "right"
      [] s = "STOP"     -> "stop"
      [] s = "LED"      -> "led"
      [] OTHER -> s

\* the alias table: COMMAND_MAPPING.get(cmd, cmd)
COMMAND_MAPPING(c) ==
    CASE c = "forward"  -> "adelante"
      [] c = "backward" -> "atras"
      [] c = "left"     -> "izquierda"
      [] c = "right"    -> "derecha"
      [] c = "stop"     -> "stop"
      [] OTHER -> c

\* time.time() - last_cmd_time > 2.0, in tenths of a second
CMD_TIMEOUT == 20

\* the watchdog's period: await asyncio.sleep(1), in tenths of a second
WD_PERIOD == 10

\* abs(gz) > 0.5, in quarters of a degree per second
GYRO_DEADBAND == 2

\* PID(kp=2.0, ki=0.5, kd=0.1), in tenths
PID_KP == 20
PID_KI == 5
PID_KD == 1


\* SAFETY_CONFIG["gas_emergency_stop"]
GAS_EMERGENCY_STOP == TRUE

\* SAFETY_CONFIG["obstacle_distance"], in cm
OBSTACLE_DISTANCE == 20

\* distances are kept in 1/100000 cm: one centimetre
CM == 100000

\* microseconds an echo edge is waited for: time.ticks_diff(...) > 30000
US_TIMEOUT == 30000

\* drivers.py: time.ticks_diff(...) > 20000
DRV_US_TIMEOUT == 20000

\* microseconds one single-byte transfer holds the bus: 20 clock periods at the
\* configured I2C_FREQ of 100 kHz
BUS_BYTE_US == 200

\* SMOKE_THRESHOLDS, in ppm
TH_ADVERTENCIA == 300
TH_PELIGRO == 1000
TH_CRITICO == 2000

(***************************************************************************)
(* Inputs                                                                  *)
(***************************************************************************)
\* an inbound payload: a JSON object {"command": c}, or text that is not JSON
Msgs ==
    [json : {TRUE}, command : {"FORWARD", "BACKWARD", "LEFT", "RIGHT", "STOP", "LED"}]
    \cup [json : {FALSE}, command : {"FORWARD"}]

\* raw gyro z readings and the reading the calibration averaged
GyroReadings == {-2, 2, 3, 4}
BiasReadings == {1}

\* navigation periods elapsed between two ticks of task_navigation (dt)
DtValues == {0, 1}

\* the wall clock advances by 1.9 s, 2.0 s or 2.1 s between observations
ClockSteps == {19, 20, 21}

\* ADC conversions of the gas channel; 0 is also what a failed read returns
AdcSamples == {0, 4000, 16000, 20000, 24000}

\* results of a distance measurement; -1 stands for None
DistSamples == {-1, 0, 10 * CM, OBSTACLE_DISTANCE * CM, 50 * CM}

\* microseconds that pass while a task is suspended in asyncio.sleep_ms(1): the
\* millisecond asked for, or longer when other tasks hold the processor
YieldSteps == {1000, 16000}

\* what a read of the ranging expander finds: the echo bit low or high, or a bus
\* error
EchoReads == {"low", "high", "error"}

\* duty requests in tenths: far below 0, -0.5, 511.9, and 1023 + 14.7 (the base
\* speed plus a PID correction)
PwmRequests == {-20000, -5, 5119, 10377}

\* steering adjustments in tenths, relative to the base speed 1023
DiffAdjusts == {-20000, -147, 147}

(***************************************************************************)
(* State                                                                   *)
(***************************************************************************)
VARIABLES
    started,                \* start() has calibrated and created the tasks
    mpu,                    \* self.mpu (and self.pid) is not None
    mq2_ready,              \* mq2.available and mq2.r0_calibrated
    r0_value,               \* mq2.r0_value, in tenths
    gyro_bias,
    yaw,
    target_yaw,
    pid,                    \* the PID's setpoint-independent state
    active_command,
    last_cmd_time,
    clock,                  \* time.time()
    emergency_stop_active,
    duty,                   \* PWM duty of motors 1..4
    pcf,                    \* byte held by each direction chip
    connected,
    alert_status,           \* mq2.alert_status
    nav_alive,              \* task_navigation has not raised
    fast_alive,             \* task_sensors_fast has not raised
    slow_alive,             \* task_sensors_slow has not raised
    slow_pc,                \* task_sensors_slow: "idle", or "measuring" a distance
    req,                    \* the motor_cfgs handed to a direction update
    drv_duty,               \* MotorDriver (drivers.py): PWM duty of motors 1..4
    drv_pcf,                \* MotorDriver (drivers.py): byte held by each chip
    us,                     \* UltrasonicSensor (main.py): a measurement in progress
    drv_us,                 \* UltrasonicDriver (drivers.py): a measurement in progress
    bus,                    \* the bus transaction a task has begun and not ended
    wd_due,                 \* the time at which the watchdog's sleep runs out
    received,               \* every command payload the broker has delivered
    inbox,                  \* delivered payloads check_msg has not read yet
    cmd_tasks,              \* handle_command tasks created and not yet run
    last_run,               \* the payload the last handle_command task handled
    alert_level,            \* ground station: state.status["alert_level"]
    ev                      \* the operation that ran last, and the branch it took

vars == <<started, mpu, mq2_ready, r0_value, gyro_bias, yaw, target_yaw, pid,
          active_command, last_cmd_time, clock, emergency_stop_active,
          duty, pcf, connected, alert_status, nav_alive, fast_alive,
          slow_alive, slow_pc, req, drv_duty, drv_pcf, us, drv_us, bus, wd_due,
          received, inbox, cmd_tasks, last_run, alert_level, ev>>

ZeroDuty == [m \in Motors |-> 0]
\* per chip: <<write transactions issued, write transactions completed>>
NoWrites == [c \in Chips |-> <<0, 0>>]
PidReset == [integral |-> 0, last_error |-> 0]
NoReq == [m \in Motors |-> "horario"]

\* the distance None (main.py) and -1 (drivers.py) stand for
US_INVALID == 0 - 1

\* pc: where the measurement stands; now: ticks_us() counted from its start;
\* mark: t0, then t1; dur: the duration measured; result: the value returned (in
\* 1/100000 cm); err: a bus read or write failed; spin: the polls made since the
\* last yield that did not see the awaited edge; pcf_state: self.pcf_state;
\* writes: the bytes the measurement has handed to _write
UsIdle == [pc |-> "idle", now |-> 0, mark |-> 0, dur |-> 0, result |-> US_INVALID,
           err |-> FALSE, spin |-> 0, pcf_state |-> 255, writes |-> <<>>]

TRIG_BIT == 2
ECHO_BIT == 1

\* self.pcf_state &= ~(1 << self.trig)
TrigLow(b) == BitAnd(b, 255 - 2 ^ TRIG_BIT)

TrigHeldLow(b) == b

\* self.pcf_state |= (1 << self.trig)
TrigHigh(b) == BitOr(b, 2 ^ TRIG_BIT)

\* the three bytes of the trigger pulse, from the byte b held before it
TrigPulse(b) ==
    <<TrigLow(b), TrigHigh(TrigLow(b)), TrigLow(TrigHigh(TrigLow(b)))>>

\* no task is inside a bus transaction
BusIdle == [owner |-> "none", txn |-> "none", pos |-> 0]

\* op: the operation, br: the branch it took, w: the chip writes it made
Ev(op, br, w) == [op |-> op, br |-> br, w |-> w]

cfgVars == <<started, mpu, mq2_ready, r0_value, gyro_bias>>
headingVars == <<yaw, target_yaw, pid>>
motorVars == <<duty, pcf>>
taskVars == <<nav_alive, fast_alive, slow_alive, slow_pc>>
unitVars == <<req, drv_duty, drv_pcf, us, drv_us, bus>>
mqttVars == <<received, inbox, cmd_tasks, last_run, alert_level>>
auxVars == <<unitVars, wd_due, mqttVars>>


(***************************************************************************)
(* The shared bus: the steps of each transaction                           *)
(***************************************************************************)
\* "sleep" is time.sleep_ms (the task keeps the processor), "await" a suspension
BusTransactions ==
    [read_adc         |-> <<"write", "sleep", "write", "read">>,
     scd30_data_ready |-> <<"write", "read">>,
     scd30_read       |-> <<"write", "sleep", "read">>,
     pcf_write        |-> <<"write">>,
     pcf_read         |-> <<"read">>]

StepYieldsOnSleep(step) == step \in {"await", "sleep"}

\* the task is suspended, and other tasks run, at this step
StepYields(step) == step = "await"

\* the steps of txn at which the task is suspended with the transaction begun
\* and not ended
OpenAt(txn) ==
    {i \in 1 .. Len(BusTransactions[txn]) : StepYields(BusTransactions[txn][i])}

\* the bus once owner has run the transactions txns, one after the other, up to
\* its next suspension
BusAfter(owner, txns) ==
    LET open == {k \in 1 .. Len(txns) : OpenAt(txns[k]) # {}}
        k == CHOOSE x \in open : \A y \in open : x <= y
    IN  IF txns = <<>> THEN bus
        ELSE IF bus # BusIdle /\ bus.owner # owner
        THEN [bus EXCEPT !.owner = "clash"]
        ELSE IF open = {} THEN BusIdle
        ELSE [owner |-> owner, txn |-> txns[k],
              pos |-> CHOOSE i \in OpenAt(txns[k]) : \A j \in OpenAt(txns[k]) : i <= j]

(***************************************************************************)
(* MotorController                                                         *)
(***************************************************************************)
Min(a, b) == IF a < b THEN a ELSE b
Max(a, b) == IF a > b THEN a ELSE b

\* int(x) of a value given in tenths: truncation toward zero
IntOfTenths(x10) == IF x10 >= 0 THEN x10 \div 10 ELSE -((-x10) \div 10)

ClipUpper(x10) == Min(MAX_PWM, IntOfTenths(x10))

\* max(0, min(1023, int(m)))
Clip(x10) == Max(0, Min(MAX_PWM, IntOfTenths(x10)))

\* pcf_maps after the loop over motor_cfgs: 0xFF and-ed with every mask of the chip
PcfMaps(cfgs) ==
    [c \in Chips |->
        LET a == IF c = 1 THEN 1 ELSE 3
            b == IF c = 1 THEN 2 ELSE 4
        IN  BitAnd(BitAnd(255, PCF_CONTROL_BITS(a, cfgs[a])),
                   PCF_CONTROL_BITS(b, cfgs[b]))]

\* the chips whose write completed: the writes run in dictionary order inside one
\* try block, so the first write that raises ends the loop
\* (fail = 0: no error, 1: the first write raises, 2: the second write raises)
WrittenChips(first, fail) ==
    CASE fail = 0 -> Chips
      [] fail = 1 -> {}
      [] OTHER    -> {first}

update_pcf(cfgs, first, fail) ==
    [c \in Chips |-> IF c \in WrittenChips(first, fail) THEN PcfMaps(cfgs)[c] ELSE pcf[c]]

\* the chips a write transaction was issued to
IssuedChips(first, fail) == IF fail = 1 THEN {first} ELSE Chips

WritesOf(first, fail) ==
    [c \in Chips |-> <<IF c \in IssuedChips(first, fail) THEN 1 ELSE 0,
                       IF c \in WrittenChips(first, fail) THEN 1 ELSE 0>>]

\* the duties set_speeds applies for the requests m (in tenths)
SpeedsDuty(m) ==
    [i \in Motors |-> Clip(IF emergency_stop_active THEN 0 ELSE m[i])]

set_speeds(m, direction, first, fail) ==
    /\ duty' = SpeedsDuty(m)
    /\ pcf' = IF direction \in Movements
              THEN update_pcf([i \in Motors |-> ROBOT_MOVEMENTS[direction][i].direction],
                              first, fail)
              ELSE pcf

\* MotorController.stop(): the four duties go to 0
motors_stop == duty' = ZeroDuty

(***************************************************************************)
(* PID (heading controller)                                                *)
(***************************************************************************)
Clamp(x, lo, hi) == Max(lo, Min(hi, x))

PidError(setpoint, val) == setpoint - val

\* the controller's state after compute(val)
PidNext(setpoint, val) ==
    [integral   |-> Clamp(pid.integral + PidError(setpoint, val),
                          -MaxIntegral, MaxIntegral),
     last_error |-> PidError(setpoint, val)]

\* compute(val), in tenths
PidOutput(setpoint, val) ==
    PID_KP * PidError(setpoint, val)
    + PID_KI * PidNext(setpoint, val).integral
    + PID_KD * (PidError(setpoint, val) - pid.last_error)


(***************************************************************************)
(* MQ2Sensor                                                               *)
(***************************************************************************)
\* voltage = adc * vref / 32767 and _calculate_ppm(voltage), tabulated for the
\* sampled conversions (rounded to whole ppm); a zero voltage divides by zero,
\* which _calculate_ppm catches and turns into 0.0
PpmOfAdc(adc) ==
    CASE adc = 4000  -> 12
      [] adc = 16000 -> 469
      [] adc = 20000 -> 1083
      [] adc = 24000 -> 2498
      [] OTHER -> 0

\* self.r0_value = 1.0 until a calibration succeeds, in tenths
R0_DEFAULT == 10

\* the clean-air factor the averaged resistance is divided by (9.83), in
\* hundredths
MQ2_RO_CLEAN_AIR == 983

\* the sensor's supply voltage, in tenths of a volt (5.0 V)
MQ2_VOLTAGE_SUPPLY == 50

\* voltages handed to the conversion, in tenths of a volt: below zero, zero, in
\* range, at and above the supply
VoltageSamples == {-5, 0, 1, 5, 10, 20, 25, 33, 40, 49, 50, 60}

\* concentrations handed to the classification, in ppm: below, at and above
\* each threshold
PpmSamples ==
    {0, TH_ADVERTENCIA - 1, TH_ADVERTENCIA, TH_PELIGRO - 1, TH_PELIGRO,
     TH_CRITICO - 1, TH_CRITICO, TH_CRITICO + 500}

\* voltages of the calibration samples, in tenths of a volt; 0 stands for a
\* conversion that is not positive (a failed read_adc returns 0)
CalVoltages == {0, 5, 25}

\* the samples of one calibration
CalInputs == [1 .. MaxCalSamples -> CalVoltages]

\* baseline resistances r0, in tenths
R0Samples == {-10, 0, 1, 5, 10, 30}

\* drivers.py: what read_voltage returns (0 to 4.096 V) and the calibrated ro
DrvVoltageSamples == {0, 1, 10, 20, 25, 30, 33, 40}
DrvRoSamples == {5, 10, 50, 100}

\* the outcome of a computation: a value, or an exception that left it
Value(x) == [raised |-> FALSE, ppm |-> x]
Raised == [raised |-> TRUE, ppm |-> 0]

\* 10 ^ ((log10(ratio) - b) / m) for ratio = num / den > 0, with the curve
\* constants rounded to m = -1/2 and b = 3/2 so that it is rational:
\* 1000 / ratio ^ 2, rounded down at each division
SmokeCurve(num, den) ==
    LET n == IF num < 0 THEN -num ELSE num
        d == IF den < 0 THEN -den ELSE den
    IN  (((1000 * d) \div n) * d) \div n

PpmExceptReraise(r) == r

\* except: return 0.0
PpmExcept(r) == Value(0)

\* the body of _calculate_ppm(voltage) for the baseline r0: rs = (supply - v) / v
\* and rs / r0 divide by zero when v or r0 is 0
PpmBody(v, r0) ==
    IF v = 0 \/ r0 = 0 THEN Raised
    ELSE LET num == 10 * (MQ2_VOLTAGE_SUPPLY - v)
             den == v * r0
         IN  IF num * den <= 0 THEN Value(0)
             ELSE Value(Max(0, SmokeCurve(num, den)))

\* MQ2Sensor._calculate_ppm
CalculatePpm(v, r0) ==
    IF PpmBody(v, r0).raised THEN PpmExcept(PpmBody(v, r0)) ELSE PpmBody(v, r0)

\* drivers.py, MQ2Driver.read_ppm for the voltage v read and the baseline ro:
\* 0.0 below 0.1 V; log10 of a ratio <= 0 raises inside the try
DrvReadPpm(v, ro) ==
    IF v < 1 THEN Value(0)
    ELSE IF ro = 0 THEN Raised
    ELSE LET num == 10 * (MQ2_VOLTAGE_SUPPLY - v)
             den == v * ro
         IN  IF num * den <= 0 THEN Value(0) ELSE Value(SmokeCurve(num, den))

ClassifyAbove(ppm) ==
    IF ppm > TH_CRITICO THEN "critico"
    ELSE IF ppm > TH_PELIGRO THEN "peligro"
    ELSE IF ppm > TH_ADVERTENCIA THEN "advertencia"
    ELSE "normal"

\* the if / elif chain of read_sensor over SMOKE_THRESHOLDS
RECURSIVE SumSeq(_)
SumSeq(q) == IF q = <<>> THEN 0 ELSE Head(q) + SumSeq(Tail(q))

\* _calibrate_r0: rs = (supply - voltage) / voltage of every positive sample, in
\* hundredths
CalRs(vs) ==
    LET pos == SelectSeq(vs, LAMBDA v : v > 0)
    IN  [i \in 1 .. Len(pos) |-> (100 * (MQ2_VOLTAGE_SUPPLY - pos[i])) \div pos[i]]

\* if samples: r0_calibrated = True
Calibrated(vs) == CalRs(vs) # <<>>

\* r0_value = avg_rs / MQ2_RO_CLEAN_AIR, in tenths
CalibrateR0(vs) ==
    IF Calibrated(vs)
    THEN (10 * (SumSeq(CalRs(vs)) \div Len(CalRs(vs)))) \div MQ2_RO_CLEAN_AIR
    ELSE r0_value

Classify(ppm) ==
    IF ppm >= TH_CRITICO THEN "critico"
    ELSE IF ppm >= TH_PELIGRO THEN "peligro"
    ELSE IF ppm >= TH_ADVERTENCIA THEN "advertencia"
    ELSE "normal"

(***************************************************************************)
(* HermesSystem                                                            *)
(***************************************************************************)
Abs(x) == IF x < 0 THEN -x ELSE x

InitBase ==
    /\ started = FALSE
    /\ mpu \in BOOLEAN
    /\ mq2_ready \in BOOLEAN
    /\ r0_value = R0_DEFAULT
    /\ gyro_bias = 0
    /\ yaw = 0
    /\ target_yaw = 0
    /\ pid = PidReset
    /\ active_command = "stop"
    /\ last_cmd_time = 0
    /\ clock = 0
    /\ emergency_stop_active = FALSE
    /\ duty = ZeroDuty
    /\ pcf = [c \in Chips |-> PCF_RESET]
    /\ connected = FALSE
    /\ alert_status = "normal"
    /\ nav_alive = TRUE
    /\ fast_alive = TRUE
    /\ slow_alive = TRUE
    /\ slow_pc = "idle"
    /\ drv_duty = ZeroDuty
    /\ drv_pcf = [c \in Chips |-> PCF_RESET]
    /\ us = UsIdle
    /\ drv_us = UsIdle
    /\ bus = BusIdle
    /\ wd_due = 0
    /\ received = <<>>
    /\ inbox = <<>>
    /\ cmd_tasks = <<>>
    /\ last_run = 0
    /\ alert_level = "NORMAL"
    /\ ev = Ev("init", "", NoWrites)

Init == InitBase /\ req = NoReq

CalibrationAnyTime == TRUE

\* _calibrate_r0 is called from the constructor of MQ2Sensor only, which runs
\* once, in HermesSystem.__init__, before start()
InConstructor == ~started /\ ev.op = "init"

\* MQ2Sensor.__init__ from the bus scan on; avail: the ADC answers the scan,
\* vs: the voltages of the calibration samples
mq2_calibrate(avail, vs) ==
    /\ InConstructor
    /\ mq2_ready' = (avail /\ Calibrated(vs))
    /\ r0_value' = IF avail THEN CalibrateR0(vs) ELSE r0_value
    /\ ev' = Ev("_calibrate_r0", <<avail>>, NoWrites)
    /\ UNCHANGED <<started, mpu, gyro_bias, headingVars, active_command,
                   last_cmd_time, clock, emergency_stop_active, motorVars,
                   connected, alert_status, taskVars, auxVars>>

TasksCreatedEarly == TRUE

\* the periodic tasks exist (and a command can arrive) once start() has created
\* them, which it does after calibrate_imu() has returned
TasksCreated == started

\* start(): calibrate_imu() averages the gyro at rest, then the tasks are created
start(b) ==
    /\ ~started
    /\ started' = TRUE
    /\ gyro_bias' = IF mpu THEN b ELSE gyro_bias
    /\ ev' = Ev("start", "", NoWrites)
    /\ UNCHANGED <<mpu, mq2_ready, r0_value, headingVars, active_command, last_cmd_time, clock,
                   emergency_stop_active, motorVars, connected, alert_status,
                   taskVars, auxVars>>

\* the wall clock advances
Tick(d) ==
    /\ clock + d <= MaxTime
    /\ clock' = clock + d
    /\ ev' = Ev("tick", "", NoWrites)
    /\ UNCHANGED <<cfgVars, headingVars, active_command, last_cmd_time,
                   emergency_stop_active, motorVars, connected, alert_status,
                   taskVars, auxVars>>

\* task_wifi_mqtt: mqtt.connect() and subscribe() succeed
wifi_connect ==
    /\ TasksCreated /\ ~connected
    /\ connected' = TRUE
    /\ ev' = Ev("task_wifi_mqtt", "connected", NoWrites)
    /\ UNCHANGED <<cfgVars, headingVars, active_command, last_cmd_time, clock,
                   emergency_stop_active, motorVars, alert_status, taskVars, auxVars>>

\* task_wifi_mqtt: check_msg() raises, the outer except clears the flag
wifi_drop ==
    /\ TasksCreated /\ connected
    /\ connected' = FALSE
    /\ ev' = Ev("task_wifi_mqtt", "dropped", NoWrites)
    /\ UNCHANGED <<cfgVars, headingVars, active_command, last_cmd_time, clock,
                   emergency_stop_active, motorVars, alert_status, taskVars, auxVars>>

\* cmd after .lower() and the alias table
Canonical(command) == COMMAND_MAPPING(Lower(command))

HeadingLockAlways(cmd) == cmd = "adelante"

HeadingLockNever(cmd) == FALSE

HeadingLockOnChange(cmd) == cmd # active_command

\* the heading is locked on entering "adelante" from another command
HeadingLock(cmd) == cmd = "adelante" /\ active_command # "adelante"

CommandTimeOnChange(cmd) == IF cmd # active_command THEN clock ELSE last_cmd_time

\* self.last_cmd_time = time.time()
CommandTime(cmd) == clock

\* the body of handle_command for the payload msg
handle_command_body(msg) ==
    /\ TasksCreated
    /\ IF ~msg.json
       THEN \* json.loads raises; except: pass
            /\ ev' = Ev("handle_command", "dropped", NoWrites)
            /\ UNCHANGED <<headingVars, active_command, last_cmd_time, duty>>
       ELSE LET cmd == Canonical(msg.command)
                lock == HeadingLock(cmd)
            IN  /\ last_cmd_time' = CommandTime(cmd)
                /\ target_yaw' = IF lock THEN yaw ELSE target_yaw
                /\ pid' = IF lock /\ mpu THEN PidReset ELSE pid
                /\ active_command' = cmd
                /\ IF cmd \notin Movements THEN motors_stop ELSE UNCHANGED duty
                /\ ev' = Ev("handle_command", IF lock THEN "lock" ELSE "nolock",
                            NoWrites)
                /\ UNCHANGED yaw
    /\ UNCHANGED <<cfgVars, clock, emergency_stop_active, pcf, connected,
                   alert_status, taskVars>>

\* the task mqtt_cb creates for one inbound message, created and run
handle_command(msg) ==
    /\ connected
    /\ handle_command_body(msg)
    /\ UNCHANGED auxVars

\* the broker delivers msg on the subscribed command topic: it waits in the
\* socket until check_msg reads it
mqtt_deliver(msg) ==
    /\ TasksCreated /\ connected /\ Len(received) < MaxMsgs
    /\ received' = Append(received, msg)
    /\ inbox' = Append(inbox, Len(received) + 1)
    /\ ev' = Ev("mqtt_deliver", "", NoWrites)
    /\ UNCHANGED <<cfgVars, headingVars, active_command, last_cmd_time, clock,
                   emergency_stop_active, motorVars, connected, alert_status,
                   taskVars, unitVars, wd_due, cmd_tasks, last_run,
                   alert_level>>

\* self.mqtt.check_msg() reads one waiting payload and calls mqtt_cb, which
\* creates the handle_command task of that payload. The task is runnable at
\* once and task_wifi_mqtt sleeps 50 ms before its next check_msg, so the task
\* has run before another one is created
mqtt_cb ==
    /\ TasksCreated /\ connected
    /\ inbox # <<>> /\ cmd_tasks = <<>>
    /\ inbox' = Tail(inbox)
    /\ cmd_tasks' = Append(cmd_tasks, Head(inbox))
    /\ ev' = Ev("mqtt_cb", "", NoWrites)
    /\ UNCHANGED <<cfgVars, headingVars, active_command, last_cmd_time, clock,
                   emergency_stop_active, motorVars, connected, alert_status,
                   taskVars, unitVars, wd_due, received, last_run,
                   alert_level>>

\* the scheduler runs the oldest handle_command task; it has no await
handle_command_task ==
    /\ cmd_tasks # <<>>
    /\ handle_command_body(received[Head(cmd_tasks)])
    /\ cmd_tasks' = Tail(cmd_tasks)
    /\ last_run' = Head(cmd_tasks)
    /\ UNCHANGED <<unitVars, wd_due, received, inbox, alert_level>>

DifferentialSteeringSameSign(correction) ==
    [i \in Motors |-> 10 * MAX_PWM + correction]

\* m_left = base + correction for motors 1 and 2, m_right = base - correction
\* for motors 3 and 4, base = 1023 (requests in tenths)
DifferentialSteering(correction) ==
    [i \in Motors |-> IF i <= 2 THEN 10 * MAX_PWM + correction
                                ELSE 10 * MAX_PWM - correction]

OutsideDeadbandInclusive(gz) == Abs(gz) >= GYRO_DEADBAND

\* abs(gz) > 0.5: the rate is integrated
OutsideDeadband(gz) == Abs(gz) > GYRO_DEADBAND

\* one iteration of task_navigation; g: the gyro reading, dt: the elapsed periods,
\* gerr: read_gyro_data raises, first/fail: the order and outcome of the chip writes
task_navigation(g, dt, gerr, first, fail) ==
    /\ TasksCreated /\ nav_alive
    /\ IF mpu /\ dt > 0 /\ gerr
       THEN /\ nav_alive' = FALSE
            /\ ev' = Ev("task_navigation", "raised", NoWrites)
            /\ UNCHANGED <<headingVars, motorVars, bus>>
       ELSE LET gz == g - gyro_bias
                yaw1 == IF mpu /\ dt > 0 /\ OutsideDeadband(gz)
                        THEN yaw + gz * dt ELSE yaw
            IN  /\ Abs(yaw1) <= MaxYaw
                /\ yaw' = yaw1
                /\ nav_alive' = TRUE
                /\ UNCHANGED target_yaw
                /\ IF emergency_stop_active
                   THEN /\ motors_stop
                        /\ ev' = Ev("task_navigation", "emergency", NoWrites)
                        /\ UNCHANGED <<pid, pcf, bus>>
                   ELSE IF active_command = "adelante" /\ mpu
                   THEN LET correction == PidOutput(target_yaw, yaw1)
                        IN  /\ pid' = PidNext(target_yaw, yaw1)
                            /\ set_speeds(DifferentialSteering(correction),
                                          "adelante", first, fail)
                            /\ bus' = BusAfter("task_navigation",
                                                <<"pcf_write", "pcf_write">>)
                            /\ ev' = Ev("task_navigation", "closed_loop",
                                        WritesOf(first, fail))
                   ELSE IF active_command \in Movements
                   THEN LET mov == ROBOT_MOVEMENTS[active_command]
                        IN  /\ set_speeds([i \in Motors |-> 10 * mov[i].pwm],
                                          active_command, first, fail)
                            /\ bus' = BusAfter("task_navigation",
                                                <<"pcf_write", "pcf_write">>)
                            /\ ev' = Ev("task_navigation", "open_loop",
                                        WritesOf(first, fail))
                            /\ UNCHANGED pid
                   ELSE /\ motors_stop
                        /\ ev' = Ev("task_navigation", "stop", NoWrites)
                        /\ UNCHANGED <<pid, pcf, bus>>
    /\ UNCHANGED <<cfgVars, active_command, last_cmd_time, clock,
                   emergency_stop_active, connected, alert_status,
                   fast_alive, slow_alive, slow_pc, req, drv_duty, drv_pcf, us,
                   drv_us, wd_due, mqttVars>>


ReadSensorUncalibrated(adc) == Classify(PpmOfAdc(adc))

\* read_sensor(): None (here "none") unless the sensor is available and calibrated
read_sensor(adc) ==
    IF mq2_ready THEN Classify(PpmOfAdc(adc)) ELSE "none"

Danger(status) == status \in {"peligro", "critico"}

GasTrip(status) ==
    /\ status # "none" /\ Danger(status)
    /\ GAS_EMERGENCY_STOP /\ ~emergency_stop_active

GasClearNever(status) == FALSE

\* the flag is cleared by a reading below "peligro"
GasClear(status) ==
    status # "none" /\ ~Danger(status) /\ emergency_stop_active

\* read_adc: the conversion, or 0 when a bus transfer of the read raises
ReadAdc(adc, aerr) == IF aerr THEN 0 ELSE adc

\* what the event of the gas task records: the conversion was attempted and
\* failed
AdcOutcome(aerr) == [adc_failed |-> aerr /\ connected /\ mq2_ready]

\* one iteration of task_sensors_fast; adc: the gas conversion, aerr: the ADC
\* read fails, perr: a publish or the accelerometer read raises
task_sensors_fast_io(adc, aerr, perr) ==
    /\ TasksCreated /\ fast_alive
    /\ IF ~connected
       THEN /\ ev' = Ev("task_sensors_fast", "offline", AdcOutcome(aerr))
            /\ UNCHANGED <<active_command, emergency_stop_active, alert_status,
                           fast_alive, bus>>
       ELSE LET status == read_sensor(ReadAdc(adc, aerr))
                trip == GasTrip(status)
                clear == GasClear(status)
            IN  /\ alert_status' = IF status # "none" THEN status ELSE alert_status
                /\ emergency_stop_active' =
                       IF trip THEN TRUE
                       ELSE IF clear THEN FALSE ELSE emergency_stop_active
                /\ active_command' = IF trip THEN "stop" ELSE active_command
                /\ fast_alive' = ~(perr /\ (status # "none" \/ mpu))
                /\ bus' = BusAfter("task_sensors_fast",
                                    IF mq2_ready THEN <<"read_adc">> ELSE <<>>)
                /\ ev' = Ev("task_sensors_fast",
                            IF trip THEN "trip" ELSE IF clear THEN "clear" ELSE "same",
                            AdcOutcome(aerr))
    /\ UNCHANGED <<cfgVars, headingVars, last_cmd_time, clock, motorVars, connected,
                   nav_alive, slow_alive, slow_pc, req, drv_duty, drv_pcf, us, drv_us,
                   wd_due, mqttVars>>

\* one iteration of task_sensors_fast whose ADC read succeeds
task_sensors_fast(adc, perr) == task_sensors_fast_io(adc, FALSE, perr)

\* the measurement after its first trigger write, suspended in the first
\* asyncio.sleep_ms(1); werr: the write failed (_write swallows the error)
UsBegin(werr) ==
    [UsIdle EXCEPT !.pc = "trig_high", !.now = BUS_BYTE_US, !.err = werr,
                   !.pcf_state = TrigLow(us.pcf_state),
                   !.writes = <<TrigLow(us.pcf_state)>>]

\* task_sensors_slow up to the first await of the distance measurement; ready: the
\* CO2 sensor has data and its read succeeds, perr: the publish raises, werr: the
\* first trigger write fails
task_sensors_slow_begin(ready, perr, werr) ==
    /\ TasksCreated /\ slow_alive /\ slow_pc = "idle"
    /\ IF ~connected
       THEN /\ ev' = Ev("task_sensors_slow", "offline", NoWrites)
            /\ UNCHANGED <<slow_alive, slow_pc, us, bus>>
       ELSE IF ready /\ perr
       THEN /\ slow_alive' = FALSE
            /\ bus' = BusAfter("task_sensors_slow", <<"scd30_data_ready", "scd30_read">>)
            /\ ev' = Ev("task_sensors_slow", "raised", NoWrites)
            /\ UNCHANGED <<slow_pc, us>>
       ELSE /\ slow_pc' = "measuring"
            /\ us' = UsBegin(werr)
            /\ bus' = BusAfter("task_sensors_slow",
                                <<"scd30_data_ready">>
                                \o (IF ready THEN <<"scd30_read">> ELSE <<>>)
                                \o <<"pcf_write">>)
            /\ ev' = Ev("task_sensors_slow", "measure", NoWrites)
            /\ UNCHANGED slow_alive
    /\ UNCHANGED <<cfgVars, headingVars, active_command, last_cmd_time, clock,
                   emergency_stop_active, motorVars, connected, alert_status,
                   nav_alive, fast_alive, req, drv_duty, drv_pcf, drv_us,
                   wd_due, mqttVars>>

ObstacleOverrideAnyMovement(dist) ==
    dist < OBSTACLE_DISTANCE * CM /\ active_command # "stop"

\* dist < SAFETY_CONFIG["obstacle_distance"] and self.active_command == "adelante"
ObstacleOverride(dist) ==
    dist < OBSTACLE_DISTANCE * CM /\ active_command = "adelante"

\* task_sensors_slow from the return of measure_distance_async with dist to its
\* asyncio.sleep_ms(500); perr: the publish raises
slow_return(dist, perr) ==
    /\ slow_pc' = "idle"
    /\ IF dist > 0
       THEN /\ active_command' =
                   IF ObstacleOverride(dist) THEN "stop" ELSE active_command
            /\ slow_alive' = ~perr
            /\ ev' = Ev("task_sensors_slow", "distance", NoWrites)
       ELSE /\ ev' = Ev("task_sensors_slow", "invalid", NoWrites)
            /\ UNCHANGED <<active_command, slow_alive>>

\* task_sensors_slow once a measurement, not followed step by step, has returned
\* dist
task_sensors_slow_end(dist, perr) ==
    /\ TasksCreated /\ slow_alive /\ slow_pc = "measuring"
    /\ slow_return(dist, perr)
    /\ us' = [UsIdle EXCEPT !.pcf_state = TrigLow(TrigHigh(us.pcf_state)),
                            !.writes = us.writes
                                \o <<TrigHigh(us.pcf_state),
                                     TrigLow(TrigHigh(us.pcf_state))>>]
    /\ UNCHANGED <<cfgVars, headingVars, last_cmd_time, clock,
                   emergency_stop_active, motorVars, connected, alert_status,
                   nav_alive, fast_alive, req, drv_duty, drv_pcf, drv_us, bus,
                   wd_due, mqttVars>>

(***************************************************************************)
(* UltrasonicSensor.measure_distance_async, from one await to the next     *)
(***************************************************************************)
DistanceOfUnhalved(duration) == duration * 3430

\* (duration * 0.0343) / 2, duration in microseconds, result in 1/100000 cm
DistanceOf(duration) == (duration * 3430) \div 2

\* self._read() & (1 << self.echo): _read returns 0xFF when the bus read fails
EchoHigh(r) == r \in {"high", "error"}

\* one _read(): the bus is held for a byte
UsRead(u, r) ==
    [u EXCEPT !.now = @ + BUS_BYTE_US, !.err = @ \/ (r = "error")]

\* return val
UsReturn(u, val) == [u EXCEPT !.pc = "done", !.result = val]

UsTimedOutNever(u) == FALSE

\* time.ticks_diff(time.ticks_us(), t) > 30000
UsTimedOut(u) == u.now - u.mark > US_TIMEOUT

\* one pass of the second loop: read; echo still high: time out or sleep;
\* echo low: return the distance
UsPollFall(u, r) ==
    LET v == UsRead(u, r)
    IN  IF EchoHigh(r)
        THEN IF UsTimedOut(v) THEN UsReturn(v, US_INVALID)
             ELSE [v EXCEPT !.pc = "wait_fall", !.spin = @ + 1]
        ELSE UsReturn([v EXCEPT !.dur = v.now - v.mark],
                      DistanceOf(v.now - v.mark))

\* one pass of the first loop: read; echo low: time out or sleep; echo high:
\* t1 = ticks_us() and on to the second loop (its first read is r2)
UsPollRise(u, r1, r2) ==
    LET v == UsRead(u, r1)
    IN  IF EchoHigh(r1)
        THEN UsPollFall([v EXCEPT !.mark = v.now], r2)
        ELSE IF UsTimedOut(v) THEN UsReturn(v, US_INVALID)
             ELSE [v EXCEPT !.pc = "wait_rise", !.spin = @ + 1]

\* the task resumes from asyncio.sleep_ms(1) after s microseconds
UsResume(s) == [us EXCEPT !.now = @ + s, !.spin = 0]

\* the measurement has run to u: it is suspended in a sleep, or it has returned
\* and task_sensors_slow goes on with the result in the same scheduling step
us_step(br, u, txns) ==
    /\ TasksCreated /\ slow_alive /\ slow_pc = "measuring"
    /\ u.now <= MaxTicks
    /\ bus' = BusAfter("task_sensors_slow", txns)
    /\ IF u.pc = "done"
       THEN /\ us' = [u EXCEPT !.pc = "idle", !.now = 0, !.mark = 0]
            /\ slow_return(u.result, FALSE)
       ELSE /\ us' = u
            /\ ev' = Ev("measure_distance_async", br, NoWrites)
            /\ UNCHANGED <<active_command, slow_alive, slow_pc>>
    /\ UNCHANGED <<cfgVars, headingVars, last_cmd_time, clock,
                   emergency_stop_active, motorVars, connected, alert_status,
                   nav_alive, fast_alive, req, drv_duty, drv_pcf, drv_us,
                   wd_due, mqttVars>>

\* the trigger bit is raised
us_trig_high(s, werr) ==
    /\ us.pc = "trig_high"
    /\ us_step("trig_high",
               [UsResume(s) EXCEPT !.pc = "trig_low", !.now = @ + BUS_BYTE_US,
                                   !.err = @ \/ werr,
                                   !.pcf_state = TrigHigh(@),
                                   !.writes = Append(@, TrigHigh(us.pcf_state))],
               <<"pcf_write">>)

\* the trigger bit is lowered, t0 is taken and the echo is polled for the first
\* time
us_trig_low(s, werr, r1, r2) ==
    /\ us.pc = "trig_low"
    /\ LET w == [UsResume(s) EXCEPT !.now = @ + BUS_BYTE_US, !.err = @ \/ werr,
                                     !.pcf_state = TrigLow(@),
                                     !.writes = Append(@, TrigLow(us.pcf_state))]
       IN  us_step("trig_low", UsPollRise([w EXCEPT !.mark = w.now], r1, r2),
                   <<"pcf_write", "pcf_read">>)

\* the first loop after its sleep
us_wait_rise(s, r1, r2) ==
    /\ us.pc = "wait_rise"
    /\ us_step("wait_rise", UsPollRise(UsResume(s), r1, r2), <<"pcf_read">>)

\* the second loop after its sleep
us_wait_fall(s, r) ==
    /\ us.pc = "wait_fall"
    /\ us_step("wait_fall", UsPollFall(UsResume(s), r), <<"pcf_read">>)

CommandStaleAtTimeout ==
    active_command # "stop" /\ clock - last_cmd_time >= CMD_TIMEOUT

\* the watchdog's trip condition
CommandStale ==
    active_command # "stop" /\ clock - last_cmd_time > CMD_TIMEOUT

\* the body of the watchdog's loop
watchdog_check ==
    IF CommandStale
    THEN /\ active_command' = "stop"
         /\ motors_stop
         /\ ev' = Ev("task_watchdog", "trip", NoWrites)
    ELSE /\ ev' = Ev("task_watchdog", "idle", NoWrites)
         /\ UNCHANGED <<active_command, duty>>

\* one iteration of task_watchdog
task_watchdog ==
    /\ TasksCreated
    /\ watchdog_check
    /\ UNCHANGED <<cfgVars, headingVars, last_cmd_time, clock,
                   emergency_stop_active, pcf, connected, alert_status,
                   taskVars, auxVars>>

\* one iteration of task_watchdog, run when its asyncio.sleep(1) has run out
task_watchdog_periodic ==
    /\ TasksCreated /\ clock = wd_due
    /\ watchdog_check
    /\ wd_due' = clock + WD_PERIOD
    /\ UNCHANGED <<cfgVars, headingVars, last_cmd_time, clock,
                   emergency_stop_active, pcf, connected, alert_status,
                   taskVars, unitVars, mqttVars>>

\* task_navigation, while it lives, runs every 20 ms: it is the last task to have
\* run when a tenth of a second ends
NavigationRan == ~nav_alive \/ ev.op = "task_navigation"

\* a tenth of a second passes; the scheduler resumes the watchdog when its sleep
\* has run out, so the clock does not pass wd_due before the watchdog has run
TickBeforeDue ==
    /\ TasksCreated /\ clock < wd_due /\ clock < MaxWdTime
    /\ NavigationRan
    /\ clock' = clock + 1
    /\ ev' = Ev("tick", "", NoWrites)
    /\ UNCHANGED <<cfgVars, headingVars, active_command, last_cmd_time,
                   emergency_stop_active, motorVars, connected, alert_status,
                   taskVars, auxVars>>

(***************************************************************************)
(* Direction chips: MotorController._update_pcf on its own, and the        *)
(* MotorDriver of drivers.py                                               *)
(***************************************************************************)
\* direction strings a motor_cfgs entry may carry; "libre" is no key of the table
CfgDirections == Directions \cup {"libre"}

\* self._update_pcf(req)
motor_update_pcf(first, fail) ==
    /\ pcf' = update_pcf(req, first, fail)
    /\ bus' = BusAfter("_update_pcf", <<"pcf_write", "pcf_write">>)
    /\ ev' = Ev("_update_pcf", "", WritesOf(first, fail))
    /\ UNCHANGED <<cfgVars, headingVars, active_command, last_cmd_time, clock,
                   emergency_stop_active, duty, connected, alert_status, taskVars,
                   req, drv_duty, drv_pcf, us, drv_us, wd_due, mqttVars>>

\* drivers.py: the movements table of MotorDriver.move, motor -> (pwm, direction)
DrvMovements ==
    [FORWARD  |-> [m \in Motors |-> <<MAX_PWM, "horario">>],
     BACKWARD |-> [m \in Motors |-> <<MAX_PWM, "antihorario">>],
     LEFT     |-> [m \in Motors |->
                     <<MAX_PWM, IF m <= 2 THEN "antihorario" ELSE "horario">>],
     RIGHT    |-> [m \in Motors |->
                     <<MAX_PWM, IF m <= 2 THEN "horario" ELSE "antihorario">>],
     STOP     |-> [m \in Motors |-> <<0, "horario">>]]

\* movements.get(direction_name, movements["STOP"])
DrvCmd(name) ==
    IF name \in DOMAIN DrvMovements THEN DrvMovements[name] ELSE DrvMovements.STOP

\* pcf1 and pcf2 of MotorDriver.move
DrvMerged(cmd) ==
    [c \in Chips |->
        LET a == IF c = 1 THEN 1 ELSE 3
            b == IF c = 1 THEN 2 ELSE 4
        IN  BitAnd(BitAnd(255, PCF_CONTROL_BITS(a, cmd[a][2])),
                   PCF_CONTROL_BITS(b, cmd[b][2]))]

\* _write_pcf catches the error of its own write: err[c] says the write to chip c
\* raises
DrvWrite(bytes, err) ==
    [c \in Chips |-> IF err[c] THEN drv_pcf[c] ELSE bytes[c]]

DrvWrites(err) == [c \in Chips |-> <<1, IF err[c] THEN 0 ELSE 1>>]

DrvNames == {"FORWARD", "BACKWARD", "LEFT", "RIGHT", "STOP", "adelante"}

drv_move(direction_name, err) ==
    /\ drv_duty' = [m \in Motors |-> DrvCmd(direction_name)[m][1]]
    /\ drv_pcf' = DrvWrite(DrvMerged(DrvCmd(direction_name)), err)
    /\ ev' = Ev("move", direction_name, DrvWrites(err))
    /\ UNCHANGED <<cfgVars, headingVars, active_command, last_cmd_time, clock,
                   emergency_stop_active, motorVars, connected, alert_status,
                   taskVars, req, us, drv_us, bus, wd_due, mqttVars>>

drv_stop(err) ==
    /\ drv_duty' = ZeroDuty
    /\ drv_pcf' = DrvWrite([c \in Chips |-> PCF_RESET], err)
    /\ ev' = Ev("drv_stop", "", DrvWrites(err))
    /\ UNCHANGED <<cfgVars, headingVars, active_command, last_cmd_time, clock,
                   emergency_stop_active, motorVars, connected, alert_status,
                   taskVars, req, us, drv_us, bus, wd_due, mqttVars>>

\* MotorController.set_speeds(m1, m2, m3, m4, "adelante") on drawn requests
motor_set_speeds(m) ==
    /\ set_speeds(m, "adelante", 1, 0)
    /\ bus' = BusAfter("set_speeds", <<"pcf_write", "pcf_write">>)
    /\ ev' = Ev("set_speeds", m, WritesOf(1, 0))
    /\ UNCHANGED <<cfgVars, headingVars, active_command, last_cmd_time, clock,
                   emergency_stop_active, connected, alert_status, taskVars,
                   req, drv_duty, drv_pcf, us, drv_us, wd_due, mqttVars>>

\* drivers.py: max(0, min(1023, int(base + adj)))
DrvSpeed(adj) == Max(0, Min(MAX_PWM, IntOfTenths(10 * MAX_PWM + adj)))

\* MotorDriver.set_speed_differential(adj_left, adj_right)
drv_set_speed_differential(adj_left, adj_right) ==
    /\ drv_duty' = [m \in Motors |->
                       IF m <= 2 THEN DrvSpeed(adj_left) ELSE DrvSpeed(adj_right)]
    /\ ev' = Ev("set_speed_differential", <<adj_left, adj_right>>, NoWrites)
    /\ UNCHANGED <<cfgVars, headingVars, active_command, last_cmd_time, clock,
                   emergency_stop_active, motorVars, connected, alert_status,
                   taskVars, req, drv_pcf, us, drv_us, bus, wd_due, mqttVars>>

(***************************************************************************)
(* UltrasonicDriver.get_distance_cm of drivers.py: one synchronous call,   *)
(* followed from bus transfer to bus transfer                              *)
(***************************************************************************)
\* time.ticks_diff(time.ticks_us(), t) > 20000
DrvTimedOut(u) == u.now - u.mark > DRV_US_TIMEOUT

\* return val; the record keeps what the call measured
DrvReturn(u, val) == [u EXCEPT !.pc = "done", !.result = val, !.now = 0, !.mark = 0]

\* the trigger pulse: three writes, 5 us and 10 us apart, then t0 = ticks_us();
\* werr: one of the writes raises, which the except of the call turns into -1
drv_get_distance_begin(werr) ==
    /\ drv_us.pc \in {"idle", "done"}
    /\ \E k \in 1 .. 3 :
          LET pulse == TrigPulse(drv_us.pcf_state)
          IN  drv_us' =
                  IF werr
                  THEN \* the k-th _write raises: the except returns -1
                       DrvReturn([UsIdle EXCEPT !.err = TRUE,
                                                !.pcf_state = pulse[k],
                                                !.writes = SubSeq(pulse, 1, k)],
                                 US_INVALID)
                  ELSE [UsIdle EXCEPT !.pc = "rise",
                                      !.now = 3 * BUS_BYTE_US + 15,
                                      !.mark = 3 * BUS_BYTE_US + 15,
                                      !.pcf_state = pulse[3],
                                      !.writes = pulse]
    /\ ev' = Ev("get_distance_cm", "trigger", NoWrites)
    /\ UNCHANGED <<cfgVars, headingVars, active_command, last_cmd_time, clock,
                   emergency_stop_active, motorVars, connected, alert_status,
                   taskVars, req, drv_duty, drv_pcf, us, bus, wd_due, mqttVars>>

\* one pass of "while not (self._read() & echo)"; a failed read raises
drv_poll_rise(r) ==
    /\ drv_us.pc = "rise"
    /\ LET v == [drv_us EXCEPT !.now = @ + BUS_BYTE_US]
       IN  drv_us' =
               IF r = "error" THEN DrvReturn([v EXCEPT !.err = TRUE], US_INVALID)
               ELSE IF r = "high" THEN [v EXCEPT !.pc = "fall", !.mark = v.now]
               ELSE IF DrvTimedOut(v) THEN DrvReturn(v, US_INVALID)
               ELSE [v EXCEPT !.spin = @ + 1]
    /\ ev' = Ev("get_distance_cm", "rise", NoWrites)
    /\ UNCHANGED <<cfgVars, headingVars, active_command, last_cmd_time, clock,
                   emergency_stop_active, motorVars, connected, alert_status,
                   taskVars, req, drv_duty, drv_pcf, us, bus, wd_due, mqttVars>>

\* one pass of "while (self._read() & echo)", then t2 and the distance
drv_poll_fall(r) ==
    /\ drv_us.pc = "fall"
    /\ LET v == [drv_us EXCEPT !.now = @ + BUS_BYTE_US]
       IN  drv_us' =
               IF r = "error" THEN DrvReturn([v EXCEPT !.err = TRUE], US_INVALID)
               ELSE IF r = "high"
               THEN IF DrvTimedOut(v) THEN DrvReturn(v, US_INVALID)
                    ELSE [v EXCEPT !.spin = @ + 1]
               ELSE DrvReturn([v EXCEPT !.dur = v.now - v.mark],
                              DistanceOf(v.now - v.mark))
    /\ ev' = Ev("get_distance_cm", "fall", NoWrites)
    /\ UNCHANGED <<cfgVars, headingVars, active_command, last_cmd_time, clock,
                   emergency_stop_active, motorVars, connected, alert_status,
                   taskVars, req, drv_duty, drv_pcf, us, bus, wd_due, mqttVars>>

(***************************************************************************)
(* The gas conversion on its own                                           *)
(***************************************************************************)
calculate_ppm(v, r0) ==
    /\ ev' = Ev("_calculate_ppm", <<v, r0>>, CalculatePpm(v, r0))
    /\ UNCHANGED <<cfgVars, headingVars, active_command, last_cmd_time, clock,
                   emergency_stop_active, motorVars, connected, alert_status,
                   taskVars, auxVars>>

\* read_sensor() from the computed ppm on: the status is assigned anew; the
\* event keeps the status the sensor held before
mq2_read_sensor(ppm) ==
    /\ alert_status' = Classify(ppm)
    /\ ev' = Ev("read_sensor", <<ppm>>, alert_status)
    /\ UNCHANGED <<cfgVars, headingVars, active_command, last_cmd_time, clock,
                   emergency_stop_active, motorVars, connected, taskVars, auxVars>>

\* "CRITICAL" if status != "Normal" else "NORMAL"
AlertLevel(status) == IF status # "Normal" THEN "CRITICAL" ELSE "NORMAL"

\* the ground station's on_mqtt_message for the gas telemetry the firmware
\* published with the reading it has just taken
on_mqtt_message ==
    /\ ev.op = "read_sensor"
    /\ alert_level' = AlertLevel(alert_status)
    /\ ev' = Ev("on_mqtt_message", <<alert_status>>, NoWrites)
    /\ UNCHANGED <<cfgVars, headingVars, active_command, last_cmd_time, clock,
                   emergency_stop_active, motorVars, connected, alert_status,
                   taskVars, unitVars, wd_due, received, inbox, cmd_tasks,
                   last_run>>

drv_read_ppm(v, ro) ==
    /\ ev' = Ev("read_ppm", <<v, ro>>, DrvReadPpm(v, ro))
    /\ UNCHANGED <<cfgVars, headingVars, active_command, last_cmd_time, clock,
                   emergency_stop_active, motorVars, connected, alert_status,
                   taskVars, auxVars>>

(***************************************************************************)
(* Specifications.  All of them run the same actions; they differ in the   *)
(* inputs the environment supplies.                                        *)
(***************************************************************************)

\* Command routing, navigation with heading hold and the gas trip, with the
\* wall clock at rest and no bus or network error.
Next ==
    \/ \E b \in BiasReadings : start(b)
    \/ wifi_connect
    \/ wifi_drop
    \/ \E msg \in Msgs : handle_command(msg)
    \/ \E g \in GyroReadings, dt \in DtValues : task_navigation(g, dt, FALSE, 1, 0)
    \/ \E adc \in AdcSamples : task_sensors_fast(adc, FALSE)

Spec == Init /\ [][Next]_vars

\* Command staleness: the wall clock advances and the watchdog runs; the robot is
\* at rest on the gyro axis (readings inside the dead-band).
NextTime ==
    \/ \E b \in BiasReadings : start(b)
    \/ \E d \in ClockSteps : Tick(d)
    \/ wifi_connect
    \/ \E msg \in Msgs : handle_command(msg)
    \/ \E dt \in DtValues : task_navigation(2, dt, FALSE, 1, 0)
    \/ task_watchdog

SpecTime == Init /\ [][NextTime]_vars

\* Bus and network errors: every driver call and publish of the periodic tasks
\* may raise.
FaultMsgs == {m \in Msgs : m.json /\ m.command \in {"FORWARD", "STOP"}}

NextFault ==
    \/ \E b \in BiasReadings : start(b)
    \/ wifi_connect
    \/ wifi_drop
    \/ \E msg \in FaultMsgs : handle_command(msg)
    \/ \E gerr \in BOOLEAN, first \in Chips, fail \in 0 .. 2 :
          task_navigation(2, 1, gerr, first, fail)
    \/ \E adc \in {4000, 24000}, aerr \in BOOLEAN, perr \in BOOLEAN :
          task_sensors_fast_io(adc, aerr, perr)
    \/ \E ready \in BOOLEAN, perr \in BOOLEAN :
          task_sensors_slow_begin(ready, perr, FALSE)
    \/ \E dist \in DistSamples, perr \in BOOLEAN : task_sensors_slow_end(dist, perr)
    \/ task_watchdog

SpecFault == Init /\ [][NextFault]_vars

\* The direction chips of the MotorController: _update_pcf on a drawn request;
\* every chip write may raise.
InitPcf == InitBase /\ req \in [Motors -> CfgDirections]

NextPcf == \E first \in Chips, fail \in 0 .. 2 : motor_update_pcf(first, fail)

SpecPcf == InitPcf /\ [][NextPcf]_vars

\* The MotorDriver of drivers.py; every chip write may raise.
NextDrv ==
    \/ \E name \in DrvNames, err \in [Chips -> BOOLEAN] : drv_move(name, err)
    \/ \E err \in [Chips -> BOOLEAN] : drv_stop(err)

SpecDrv == Init /\ [][NextDrv]_vars

\* The distance measurement of the firmware, followed from await to await, beside
\* the command handler and the gas task.
InitSonar == Init /\ mpu /\ mq2_ready

NextSonar ==
    \/ \E b \in BiasReadings : start(b)
    \/ wifi_connect
    \/ \E msg \in FaultMsgs : handle_command(msg)
    \/ task_sensors_fast(4000, FALSE)
    \/ \E werr \in BOOLEAN : task_sensors_slow_begin(FALSE, FALSE, werr)
    \/ \E s \in YieldSteps, werr \in BOOLEAN : us_trig_high(s, werr)
    \/ \E s \in YieldSteps, werr \in BOOLEAN, r1 \in EchoReads, r2 \in EchoReads :
          us_trig_low(s, werr, r1, r2)
    \/ \E s \in YieldSteps, r1 \in EchoReads, r2 \in EchoReads : us_wait_rise(s, r1, r2)
    \/ \E s \in YieldSteps, r \in EchoReads : us_wait_fall(s, r)

SpecSonar == InitSonar /\ [][NextSonar]_vars

\* The distance measurement of drivers.py; every bus transfer may fail.
NextDrvSonar ==
    \/ \E werr \in BOOLEAN : drv_get_distance_begin(werr)
    \/ \E r \in EchoReads : drv_poll_rise(r)
    \/ \E r \in EchoReads : drv_poll_fall(r)

SpecDrvSonar == Init /\ [][NextDrvSonar]_vars

\* the steps of a distance measurement
NextUs ==
    \/ \E s \in YieldSteps, werr \in BOOLEAN : us_trig_high(s, werr)
    \/ \E s \in YieldSteps, werr \in BOOLEAN, r1 \in EchoReads, r2 \in EchoReads :
          us_trig_low(s, werr, r1, r2)
    \/ \E s \in YieldSteps, r1 \in EchoReads, r2 \in EchoReads : us_wait_rise(s, r1, r2)
    \/ \E s \in YieldSteps, r \in EchoReads : us_wait_fall(s, r)

\* The scheduler resumes a task whose asyncio.sleep_ms has run out.
SpecSonarLive == InitSonar /\ [][NextSonar]_vars /\ WF_vars(NextUs)

\* The gas conversion of both variants on drawn voltages and baselines.
NextGas ==
    \/ \E v \in VoltageSamples, r0 \in R0Samples : calculate_ppm(v, r0)
    \/ \E v \in DrvVoltageSamples, ro \in DrvRoSamples : drv_read_ppm(v, ro)
    \/ \E ppm \in PpmSamples : mq2_read_sensor(ppm)
    \/ on_mqtt_message

SpecGas == Init /\ [][NextGas]_vars

\* The PWM outputs: set_speeds and set_speed_differential on drawn requests.
NextPwm ==
    \/ \E m \in [Motors -> PwmRequests] : motor_set_speeds(m)
    \/ \E l \in DiffAdjusts, r \in DiffAdjusts : drv_set_speed_differential(l, r)

InitPwm == Init /\ mpu /\ mq2_ready

SpecPwm == InitPwm /\ [][NextPwm]_vars

\* Heading hold beside every safety override: commands, navigation with rates
\* outside the dead-band, the gas task, the obstacle override of the slow task
\* and the watchdog with the wall clock advancing past the timeout.
HeadingMsgs == {m \in Msgs : m.json}

NextHeading ==
    \/ \E b \in BiasReadings : start(b)
    \/ Tick(21)
    \/ wifi_connect
    \/ \E msg \in HeadingMsgs : handle_command(msg)
    \/ \E g \in {-2, 4} : task_navigation(g, 1, FALSE, 1, 0)
    \/ \E adc \in {4000, 24000} : task_sensors_fast(adc, FALSE)
    \/ task_sensors_slow_begin(FALSE, FALSE, FALSE)
    \/ \E dist \in DistSamples : task_sensors_slow_end(dist, FALSE)
    \/ task_watchdog

InitHeading == Init /\ mpu /\ mq2_ready

SpecHeading == InitHeading /\ [][NextHeading]_vars

\* The gas baseline: the constructor's calibration, then commands, gas readings
\* and the safety overrides.
InitCal == Init /\ mpu /\ ~mq2_ready

NextCal ==
    \/ \E avail \in BOOLEAN, vs \in CalInputs : mq2_calibrate(avail, vs)
    \/ \E b \in BiasReadings : start(b)
    \/ Tick(21)
    \/ wifi_connect
    \/ \E msg \in HeadingMsgs : handle_command(msg)
    \/ \E g \in {-2, 4} : task_navigation(g, 1, FALSE, 1, 0)
    \/ \E adc \in {0, 4000, 24000} : task_sensors_fast(adc, FALSE)
    \/ task_watchdog

SpecCal == InitCal /\ [][NextCal]_vars

\* The watchdog on its period: the clock advances by tenths of a second and
\* the watchdog runs every second; commands and gas readings arrive at any time
\* and the gyro read of a navigation tick may raise.
WdMsgs == {m \in Msgs : m.command \in {"FORWARD", "STOP"}}

InitWd == Init /\ mpu /\ mq2_ready

NextWd ==
    \/ \E b \in BiasReadings : start(b)
    \/ TickBeforeDue
    \/ wifi_connect
    \/ \E msg \in WdMsgs : handle_command(msg)
    \/ \E gerr \in BOOLEAN : task_navigation(2, 1, gerr, 1, 0)
    \/ \E adc \in {4000, 24000} : task_sensors_fast(adc, FALSE)
    \/ task_watchdog_periodic

SpecWd == InitWd /\ [][NextWd]_vars

\* the command path message by message: delivery, check_msg, the created task
MqttMsgs == {m \in Msgs : m.command \in {"FORWARD", "STOP"}}

InitMqtt == Init /\ mpu /\ mq2_ready

NextMqtt ==
    \/ \E b \in BiasReadings : start(b)
    \/ wifi_connect
    \/ \E msg \in MqttMsgs : mqtt_deliver(msg)
    \/ mqtt_cb
    \/ handle_command_task
    \/ task_navigation(2, 1, FALSE, 1, 0)
    \/ \E adc \in {4000, 24000} : task_sensors_fast(adc, FALSE)

SpecMqtt == InitMqtt /\ [][NextMqtt]_vars

(***************************************************************************)
(* Claims                                                                  *)
(***************************************************************************)
CanonicalCommands == {"stop", "adelante", "atras", "izquierda", "derecha"}

\* C1: whenever emergency_stop_active is true, all four PWM duties are 0.
C1_EmergencyForcesZeroDuty ==
    emergency_stop_active => duty = ZeroDuty

\* C2: a gas evaluation that sees peligro/critico leaves emergency_stop_active
\* true and one that sees normal/advertencia leaves it false, whatever
\* active_command is: the flag follows the level of the reading.
C2_GasLevelTriggered ==
    [][\A adc \in AdcSamples, perr \in BOOLEAN :
          (task_sensors_fast(adc, perr) /\ connected /\ mq2_ready)
              => (emergency_stop_active'
                      = (Classify(PpmOfAdc(adc)) \in {"peligro", "critico"}))]_vars

\* C2 witness: after normal -> critico, a normal reading has cleared the flag
\* while a movement command is active.
C2_Witness ==
    /\ ev.op = "task_sensors_fast" /\ ev.br = "clear"
    /\ alert_status = "normal" /\ ~emergency_stop_active
    /\ active_command = "adelante"

\* C3: a watchdog tick forces STOP and stops the motors exactly when
\* active_command is not STOP and more than 2 s (20 tenths) have passed since
\* last_cmd_time; otherwise it changes nothing.
C3_WatchdogTimeout ==
    [][task_watchdog =>
          IF active_command # "stop" /\ clock - last_cmd_time > 20
          THEN active_command' = "stop" /\ duty' = ZeroDuty
          ELSE UNCHANGED <<active_command, duty, pcf, last_cmd_time,
                           emergency_stop_active, headingVars>>]_vars

\* C3 witness: the watchdog has tripped 2.1 s after the last command.
C3_Witness ==
    /\ ev.op = "task_watchdog" /\ ev.br = "trip"
    /\ clock - last_cmd_time = 21
    /\ active_command = "stop" /\ duty = ZeroDuty

\* C4: FORWARD received while active_command is not FORWARD sets target_yaw to
\* yaw and resets the PID; FORWARD received while already FORWARD leaves
\* target_yaw and the PID state unchanged.
C4_HeadingLock ==
    [][\A msg \in Msgs :
          (handle_command(msg) /\ msg.json /\ Canonical(msg.command) = "adelante")
              => IF active_command # "adelante"
                 THEN target_yaw' = yaw /\ pid' = PidReset
                 ELSE target_yaw' = target_yaw /\ pid' = pid]_vars

\* C4 witness: FORWARD has just locked a heading other than the initial one.
C4_Witness ==
    /\ ev.op = "handle_command" /\ ev.br = "lock"
    /\ mpu /\ yaw # 0 /\ target_yaw = yaw /\ pid = PidReset
    /\ active_command = "adelante"

\* C5: active_command is always one of STOP, FORWARD, BACKWARD, LEFT, RIGHT.
C5_ActiveCommandCanonical ==
    active_command \in CanonicalCommands

\* C6: a payload that is not a JSON object is taken as a bare command string:
\* a known command becomes the active command, anything else gives STOP with
\* the motors stopped.
C6_MalformedPayloadApplied ==
    [][\A msg \in Msgs :
          (handle_command(msg) /\ ~msg.json)
              => IF Canonical(msg.command) \in Movements
                 THEN active_command' = Canonical(msg.command)
                 ELSE active_command' = "stop" /\ duty' = ZeroDuty]_vars

\* C7: every accepted command sets last_cmd_time to the current time, also
\* when it equals the active command.
C7_CommandRestartsTimeout ==
    [][\A msg \in Msgs :
          (handle_command(msg) /\ msg.json) => last_cmd_time' = clock]_vars

\* C7 witness: FORWARD repeated while FORWARD is active, at a later time.
C7_Witness ==
    /\ ev.op = "handle_command" /\ ev.br = "nolock"
    /\ active_command = "adelante"
    /\ clock > 0 /\ last_cmd_time = clock

\* C8: no periodic task is ended by a bus or network error.
C8_TasksSurviveErrors ==
    nav_alive /\ fast_alive /\ slow_alive

\* the byte of chip c merged from the masks of its two motors
MergedByte(cfgs, c) ==
    LET a == IF c = 1 THEN 1 ELSE 3
        b == IF c = 1 THEN 2 ELSE 4
    IN  BitAnd(BitAnd(255, PCF_CONTROL_BITS(a, cfgs[a])), PCF_CONTROL_BITS(b, cfgs[b]))

\* C9: a motor update issues exactly one write to each direction chip, and a
\* completed write leaves the merged byte on the chip.
C9_OneMergedWritePerChip ==
    ev.op = "_update_pcf"
        => \A c \in Chips :
              /\ ev.w[c][1] = 1
              /\ ev.w[c][2] = 1 => pcf[c] = MergedByte(req, c)

\* bit i of a byte
Bit(byte, i) == (byte \div (2 ^ i)) % 2

\* the bits motor m drives low in one of its two directions
OwnedBits(m) ==
    {i \in 0 .. 7 : \E d \in Directions : Bit(PCF_CONTROL_BITS(m, d), i) = 0}

\* C10: on each chip, the bits of the merged byte that belong to one motor
\* equal that motor's own mask, whatever the direction of the other motor.
C10_OwnedBitsIndependent ==
    (/\ ev.op = "_update_pcf"
     /\ \A c \in Chips : ev.w[c][2] = 1
     /\ \A m \in Motors : req[m] \in Directions)
        => \A m \in Motors : \A i \in OwnedBits(m) :
              Bit(pcf[ChipOf(m)], i) = Bit(PCF_CONTROL_BITS(m, req[m]), i)

\* the duty in [0, 1023] nearest to a request given in tenths
NearestDuty(x10) ==
    IF x10 < 0 THEN 0 ELSE IF x10 > 10230 THEN 1023 ELSE x10 \div 10

\* C11: every duty written to a PWM output lies in [0, 1023]; a request outside
\* the range, negative or above 1023, is clamped to the nearest bound.
C11_DutyClamped ==
    /\ \A i \in Motors : duty[i] \in 0 .. 1023 /\ drv_duty[i] \in 0 .. 1023
    /\ ev.op = "set_speeds" => \A i \in Motors : duty[i] = NearestDuty(ev.br[i])
    /\ ev.op = "set_speed_differential"
          => \A i \in Motors :
                drv_duty[i] = NearestDuty(10230 + ev.br[IF i <= 2 THEN 1 ELSE 2])

\* C11 witness: one call clamped a negative request to 0 and a request above
\* 1023 to 1023, and passed 511 through.
C11_Witness ==
    /\ ev.op = "set_speeds"
    /\ ev.br[1] < 0 /\ duty[1] = 0
    /\ ev.br[3] > 10230 /\ duty[3] = 1023
    /\ duty[2] = 511

\* the operation that ran last called MotorController.stop() or MotorDriver.stop()
StopIssued ==
    \/ ev.op = "task_watchdog" /\ ev.br = "trip"
    \/ ev.op = "handle_command" /\ ev.br # "dropped" /\ active_command \notin Movements
    \/ ev.op = "task_navigation" /\ ev.br \in {"stop", "emergency"}

\* C12: after any stop() (by the watchdog, by an unrecognized command, by the
\* navigation tick) all four duties are 0 and both direction chips hold 0xFF.
C12_StopResetsChips ==
    StopIssued => duty = ZeroDuty /\ \A c \in Chips : pcf[c] = 255

\* task_sensors_slow has just gone on with the result of a measurement
MeasurementReturned ==
    ev.op = "task_sensors_slow" /\ ev.br \in {"distance", "invalid"}

\* C13: a measurement in which an edge timed out or a bus transfer failed
\* returns the invalid sentinel, never 0 or a positive distance, and then no
\* distance is published.
C13_InvalidOnTimeoutOrBusError ==
    MeasurementReturned
        => /\ us.result # 0
           /\ us.err => us.result = US_INVALID /\ ev.br = "invalid"

\* C16: a returned distance is d * 0.0343 / 2 cm for the measured echo-high
\* duration d in microseconds (in 1/100000 cm: d * 3430 / 2); d = 1000 gives
\* 17.15 cm.
C16_DistanceFormula ==
    /\ (drv_us.pc = "done" /\ drv_us.result # US_INVALID)
          => /\ 2 * drv_us.result = 3430 * drv_us.dur
             /\ drv_us.dur = 1000 => drv_us.result = 1715000
    /\ (MeasurementReturned /\ us.result # US_INVALID)
          => 2 * us.result = 3430 * us.dur

\* C16 witness: an echo measured as 1000 us has returned 17.15 cm.
C16_Witness ==
    drv_us.pc = "done" /\ drv_us.dur = 1000 /\ drv_us.result = 1715000

\* C19: a measurement never polls the echo bit twice without yielding to the
\* scheduler after the poll that did not see the edge.
C19_YieldAfterEveryPoll ==
    us.spin <= 1 /\ drv_us.spin <= 1

\* C20: every distance measurement that has begun returns, with a distance or
\* the invalid sentinel, whatever the echo bit and the bus do.
C20_MeasurementReturns ==
    (slow_pc = "measuring") ~> (slow_pc = "idle")

\* C20 witness: a measurement in which a bus transfer failed has ended in a
\* timeout and returned the sentinel to task_sensors_slow.
C20_Witness ==
    /\ MeasurementReturned /\ ev.br = "invalid"
    /\ us.err /\ us.result = US_INVALID

\* the tick bound leaves every measurement room to time out twice
TicksInBound == us.now < MaxTicks - 16200

\* the output the tick owes for the state it ran in, FORWARD always closed-loop
NavBranch ==
    IF emergency_stop_active THEN "emergency"
    ELSE IF active_command = "adelante" THEN "closed_loop"
    ELSE IF active_command \in {"atras", "izquierda", "derecha"} THEN "open_loop"
    ELSE "stop"

\* the duties of a movement's table
TableDuty(c) == [i \in Motors |-> ROBOT_MOVEMENTS[c][i].pwm]

\* C14: a navigation tick produces one output by strict priority: emergency
\* stop, else closed-loop steering when FORWARD, else the fixed table when
\* BACKWARD, LEFT or RIGHT, else stop.
C14_TickPriority ==
    ev.op = "task_navigation"
        => /\ ev.br = NavBranch
           /\ ev.br \in {"emergency", "stop"} => duty = ZeroDuty
           /\ ev.br = "open_loop" => duty = TableDuty(active_command)

\* ratio = Rs/r0 is <= 0 for the voltage v (tenths of a volt) and the baseline
\* r0: the voltage is 0 or negative, or at or above the supply, for r0 > 0, and
\* the reverse for r0 < 0
RatioNotPositive(v, r0) ==
    \/ v = 0
    \/ r0 > 0 /\ (v < 0 \/ v >= 50)
    \/ r0 < 0 /\ v > 0 /\ v <= 50

\* C15: the gas conversion never raises and never yields a negative ppm, and
\* yields 0 whenever ratio <= 0, a voltage of 0 or at or above the supply
\* included.
C15_PpmZeroOnBadRatio ==
    ev.op \in {"_calculate_ppm", "read_ppm"}
        => /\ ~ev.w.raised
           /\ ev.w.ppm >= 0
           /\ RatioNotPositive(ev.br[1], ev.br[2]) => ev.w.ppm = 0

\* C15 witness: a voltage of 0 divided by zero inside _calculate_ppm and the
\* conversion returned 0.
C15_Witness ==
    /\ ev.op = "_calculate_ppm" /\ ev.br[1] = 0 /\ ev.br[2] > 0
    /\ ~ev.w.raised /\ ev.w.ppm = 0

\* C17: no step of any task shows a torn FORWARD transition: the step that makes
\* active_command FORWARD also locks target_yaw to the heading and resets the
\* PID, and while active_command stays FORWARD target_yaw stays the locked
\* heading.
C17_ForwardTransitionWhole ==
    [][/\ (active_command # "adelante" /\ active_command' = "adelante")
            => (target_yaw' = yaw /\ yaw' = yaw /\ (mpu => pid' = PidReset))
       /\ (active_command = "adelante" /\ active_command' = "adelante")
            => target_yaw' = target_yaw]_vars

\* C17 witness: a closed-loop tick runs in FORWARD with the heading locked at
\* the transition, which the robot has since drifted away from.
C17_Witness ==
    /\ ev.op = "task_navigation" /\ ev.br = "closed_loop"
    /\ active_command = "adelante"
    /\ target_yaw # 0 /\ yaw # target_yaw

\* C21: the gyro bias calibration completes before the first iteration of any
\* periodic task and before any command is handled, and gyro_bias is never
\* modified afterwards.
C21_CalibrationFirst ==
    [][/\ ~started => (started' /\ ev'.op = "start")
       /\ started => gyro_bias' = gyro_bias]_vars

\* C21 witness: a navigation tick has integrated a rate corrected by the bias
\* the calibration measured.
C21_Witness ==
    /\ started /\ mpu /\ gyro_bias # 0
    /\ ev.op = "task_navigation" /\ yaw # 0

\* the heading the claim gives after a tick that read g over dt periods
YawAfter(g, dt) ==
    IF Abs(g - gyro_bias) <= GYRO_DEADBAND THEN yaw ELSE yaw + (g - gyro_bias) * dt

\* C22: a navigation tick with gz = raw_gyro_z - gyro_bias leaves yaw unchanged
\* when |gz| is within the dead-band threshold and otherwise increases yaw by
\* exactly gz * dt; no other operation modifies yaw.  (No tick that read g over
\* dt ends with a heading other than YawAfter(g, dt).)
C22_YawIntegration ==
    [][/\ (ev'.op = "task_navigation" /\ mpu)
             => \A g \in GyroReadings, dt \in DtValues :
                   yaw' # YawAfter(g, dt) => ~task_navigation(g, dt, FALSE, 1, 0)
       /\ ev'.op # "task_navigation" => yaw' = yaw]_vars

\* C22 witness: ticks have integrated a negative rate outside the dead-band
\* down to the heading -3.
C22_Witness ==
    /\ ev.op = "task_navigation" /\ mpu /\ gyro_bias = 1
    /\ yaw = 0 - 3

\* C23: a command that enters BACKWARD, LEFT, RIGHT or STOP (any command that
\* is not an entry into FORWARD) leaves target_yaw and the PID state unchanged,
\* and no other operation (watchdog trip, gas trip or clear, obstacle override,
\* navigation tick) modifies target_yaw or resets the PID: the navigation tick
\* only advances the PID by one compute().
C23_ForwardEntrySoleWriter ==
    [][/\ (/\ ev'.op = "handle_command"
           /\ ~(active_command # "adelante" /\ active_command' = "adelante"))
             => (target_yaw' = target_yaw /\ pid' = pid)
       /\ ev'.op # "handle_command"
             => /\ target_yaw' = target_yaw
                /\ \/ pid' = pid
                   \/ /\ ev'.op = "task_navigation" /\ ev'.br = "closed_loop"
                      /\ pid' = PidNext(target_yaw, yaw')]_vars

\* C23 witness: BACKWARD has been entered by a command while a heading other
\* than the initial one is locked and the PID has accumulated error.
C23_Witness ==
    /\ ev.op = "handle_command" /\ active_command = "atras"
    /\ target_yaw # 0 /\ pid # PidReset

\* C24: a closed-loop FORWARD tick applies the PID correction c with opposite
\* signs around the same base duty 1023, always + on the left pair (motors 1, 2)
\* and - on the right pair (motors 3, 4), each clamped to the duty range; both
\* motors of a side receive the same duty.
C24_OppositeCorrection ==
    [][(ev'.op = "task_navigation" /\ ev'.br = "closed_loop")
          => LET c == PidOutput(target_yaw, yaw')
             IN  /\ duty'[1] = NearestDuty(10230 + c) /\ duty'[2] = duty'[1]
                 /\ duty'[3] = NearestDuty(10230 - c) /\ duty'[4] = duty'[3]
                 /\ c > 0 => duty'[3] <= duty'[1]
                 /\ c < 0 => duty'[1] <= duty'[3]]_vars

\* C24 witness: the heading is below the locked one, the correction is positive:
\* the left pair runs at the base duty and the right pair below it.
C24_Witness ==
    /\ ev.op = "task_navigation" /\ ev.br = "closed_loop"
    /\ yaw < target_yaw /\ pid.last_error > 0
    /\ duty[1] = 1023 /\ duty[2] = 1023
    /\ duty[3] < 1023 /\ duty[4] = duty[3]

\* the thresholds a concentration reaches
Reached(ppm) == {t \in {TH_ADVERTENCIA, TH_PELIGRO, TH_CRITICO} : ppm >= t}

\* the status named after the highest threshold reached
StatusFor(ppm) ==
    IF TH_CRITICO \in Reached(ppm) THEN "critico"
    ELSE IF TH_PELIGRO \in Reached(ppm) THEN "peligro"
    ELSE IF TH_ADVERTENCIA \in Reached(ppm) THEN "advertencia"
    ELSE "normal"

Severity(status) ==
    CASE status = "normal" -> 0
      [] status = "advertencia" -> 1
      [] status = "peligro" -> 2
      [] status = "critico" -> 3

\* C25: the alert_status of a gas reading is a function of its ppm alone: it
\* is the status of the highest of the three ascending thresholds the ppm
\* reaches, whatever the status was before, and the severity never decreases
\* when the ppm increases.
C25_ClassificationStateless ==
    ev.op = "read_sensor"
        => /\ alert_status = StatusFor(ev.br[1])
           /\ \A q \in PpmSamples :
                 q >= ev.br[1] => Severity(Classify(q)) >= Severity(alert_status)

\* C25 witness: a reading exactly at the danger threshold, taken while the
\* status was critical, is classified danger.
C25_Witness ==
    /\ ev.op = "read_sensor" /\ ev.br[1] = TH_PELIGRO
    /\ ev.w = "critico" /\ alert_status = "peligro"

\* C26: the gas baseline r0 and the calibrated flag are set only by the startup
\* calibration: once start() has run, no sensor read, command or safety event
\* changes them.
C26_BaselineReadOnly ==
    [][/\ started => (r0_value' = r0_value /\ mq2_ready' = mq2_ready)
       /\ ev'.op # "_calibrate_r0"
             => (r0_value' = r0_value /\ mq2_ready' = mq2_ready)]_vars

\* C26 witness: the calibration set a baseline other than the default, and a gas
\* reading has since tripped the emergency stop.
C26_Witness ==
    /\ started /\ mq2_ready /\ r0_value # R0_DEFAULT
    /\ ev.op = "task_sensors_fast" /\ ev.br = "trip"

\* C27: on every gas-sensor period, connected to the broker or not, a reading
\* that classifies as danger or critical leaves emergency_stop_active set and
\* active_command STOP.
C27_GasTripWithoutBroker ==
    [][ev'.op = "task_sensors_fast"
          => \A adc \in AdcSamples :
                (/\ task_sensors_fast(adc, FALSE)
                 /\ mq2_ready /\ Danger(Classify(PpmOfAdc(adc))))
                    => (emergency_stop_active' /\ active_command' = "stop")]_vars

\* C28: once emergency_stop_active is true it stays true until a reading
\* obtained from a successful ADC conversion is classified normal or warning:
\* a failed ADC read does not clear the emergency, and nothing else does.
C28_FailedReadKeepsEmergency ==
    [][(emergency_stop_active /\ ~emergency_stop_active')
          => /\ ev'.op = "task_sensors_fast"
             /\ ~ev'.w.adc_failed
             /\ alert_status' \in {"normal", "advertencia"}]_vars

\* C29: after emergency_stop_active has gone from true to false the duties
\* stay 0 until a movement command is received after the clearing: the
\* navigation tick that follows the clearing directly, with the motors at rest,
\* leaves all duties 0.
C29_NoRestartOnClear ==
    [][(/\ ev.op = "task_sensors_fast" /\ ev.br = "clear"
        /\ duty = ZeroDuty
        /\ ev'.op = "task_navigation")
          => duty' = ZeroDuty]_vars

\* C30: when the last accepted command dates from time t, then at every time
\* later than t + command timeout (2 s) + one watchdog period (1 s)
\* active_command is STOP and all duties are 0, until the next accepted command.
C30_WatchdogBoundedResponse ==
    (ev.op = "tick" /\ clock - last_cmd_time > CMD_TIMEOUT + WD_PERIOD)
        => (active_command = "stop" /\ duty = ZeroDuty)

\* C31: the obstacle override acts only on FORWARD: a measurement that returns
\* a valid distance below the obstacle threshold while active_command is FORWARD
\* sets active_command to STOP; in every other case the return of a measurement
\* leaves active_command unchanged; it never modifies emergency_stop_active or
\* last_cmd_time.
C31_ObstacleOverrideOnlyForward ==
    [][ev'.op = "task_sensors_slow"
          => /\ emergency_stop_active' = emergency_stop_active
             /\ last_cmd_time' = last_cmd_time
             /\ \A dist \in DistSamples :
                   task_sensors_slow_end(dist, FALSE)
                       => active_command' =
                             IF /\ dist > 0 /\ dist < 20 * CM
                                /\ active_command = "adelante"
                             THEN "stop" ELSE active_command]_vars

\* C31 witness: a distance has returned and active_command is STOP while the
\* motors still run at the duties of FORWARD: the override, not a command, the
\* watchdog or the gas trip, has stopped the robot.
C31_Witness ==
    /\ ev.op = "task_sensors_slow" /\ ev.br = "distance"
    /\ active_command = "stop" /\ ~emergency_stop_active
    /\ \A i \in Motors : duty[i] > 0

\* C32: command messages are applied in the order they are received: each
\* inbound message spawns one handle_command task, the tasks run in arrival
\* order, and once the tasks of all received messages have run active_command
\* is the command of the last message received.
C32_LastMessageApplied ==
    (/\ ev.op = "handle_command" /\ received # <<>>
     /\ inbox = <<>> /\ cmd_tasks = <<>> /\ last_run = Len(received))
        => active_command = Canonical(received[Len(received)].command)

\* the handle_command tasks run one per delivered payload, in delivery order
CommandsRunInArrivalOrder ==
    [][ev'.op = "handle_command" => last_run' = last_run + 1]_vars

\* the direction of each motor in the table of the movement c
TableDirections(c) == [i \in Motors |-> ROBOT_MOVEMENTS[c][i].direction]

\* C33: when no emergency is active, a movement command that has been accepted
\* is reflected in the motor outputs by the end of the next navigation tick:
\* after the tick both direction chips hold the merged bytes of the commanded
\* movement and the duties are those of the movement (the table's for an
\* open-loop movement, the steering duties for closed-loop FORWARD).
C33_CommandReflectedByNextTick ==
    (/\ ev.op = "task_navigation"
     /\ ~emergency_stop_active /\ active_command \in Movements)
        => /\ ev.br \in {"open_loop", "closed_loop"}
           /\ \A c \in Chips :
                 pcf[c] = MergedByte(TableDirections(active_command), c)
           /\ ev.br = "open_loop" => duty = TableDuty(active_command)
           /\ \A i \in Motors : duty[i] \in 0 .. MAX_PWM

\* C34: a failed write to one direction chip does not prevent the write to the
\* other chip in the same motor update: when the write to one chip has raised,
\* the other chip has received its merged byte.
C34_OtherChipStillWritten ==
    ev.op = "_update_pcf"
        => \A c \in Chips :
              ev.w[c] = <<1, 0>>
                  => \A o \in Chips \ {c} :
                        ev.w[o] = <<1, 1>> /\ pcf[o] = MergedByte(req, o)

\* the trigger-bit values of the bytes ws
TrigBits(ws) == [i \in 1 .. Len(ws) |-> Bit(ws[i], TRIG_BIT)]

\* the bytes the measurement u has written leave every bit but the trigger bit
\* high, and their trigger bits are the first ones of low, high, low
TriggerOnly(u) ==
    /\ \A i \in 1 .. Len(u.writes) : BitOr(u.writes[i], 2 ^ TRIG_BIT) = 255
    /\ \A i \in 1 .. Len(u.writes) : Bit(u.writes[i], ECHO_BIT) = 1
    /\ Len(u.writes) <= 3
    /\ TrigBits(u.writes) = SubSeq(<<0, 1, 0>>, 1, Len(u.writes))

\* C35: a distance measurement only changes the trigger bit of the ranging
\* expander's byte: every byte it writes has all other bits 1, the echo bit
\* included, and the trigger bits written before the first echo poll are low,
\* high, low.
C35_OnlyTriggerBitChanges ==
    /\ TriggerOnly(us) /\ TriggerOnly(drv_us)
    /\ us.pc \in {"wait_rise", "wait_fall"} => Len(us.writes) = 3
    /\ MeasurementReturned => Len(us.writes) = 3
    /\ drv_us.pc \in {"rise", "fall"} => Len(drv_us.writes) = 3

\* C35 witness: a measurement has written its three bytes, 0xFB, 0xFF, 0xFB,
\* has polled the echo bit once and waits for the rising edge.
C35_Witness ==
    /\ us.pc = "wait_rise" /\ us.spin = 1
    /\ us.writes = <<251, 255, 251>> /\ us.pcf_state = 251

\* C36: read_sensor produces a gas reading only when the sensor is available
\* and the startup calibration succeeded with at least one positive sample;
\* otherwise every read returns no reading, and such a read changes neither
\* alert_status nor emergency_stop_active nor active_command.
C36_ReadingOnlyWhenCalibrated ==
    [][/\ ev'.op = "_calibrate_r0"
             => \A avail \in BOOLEAN, vs \in CalInputs :
                   mq2_calibrate(avail, vs)
                       => (mq2_ready' <=> (avail /\ \E i \in DOMAIN vs : vs[i] > 0))
       /\ ev'.op # "_calibrate_r0" => mq2_ready' = mq2_ready
       /\ \A adc \in AdcSamples :
             (read_sensor(adc) = "none") <=> ~mq2_ready
       /\ (ev'.op = "task_sensors_fast" /\ ~mq2_ready)
             => /\ alert_status' = alert_status
                /\ emergency_stop_active' = emergency_stop_active
                /\ active_command' = active_command]_vars

\* C36 witness: with no successful calibration the gas task has run connected
\* while the robot drives FORWARD, and the robot still drives.
C36_Witness ==
    /\ started /\ ~mq2_ready
    /\ ev.op = "task_sensors_fast" /\ ev.br = "same"
    /\ active_command = "adelante" /\ ~emergency_stop_active
    /\ alert_status = "normal"

\* C37: on the ground station a gas telemetry message whose alert_status is the
\* firmware's value for a non-alert reading (normal) sets alert_level to
\* NORMAL; alert_level becomes CRITICAL only for an alerting status.
C37_NormalStatusNormalLevel ==
    ev.op = "on_mqtt_message"
        => /\ ev.br[1] = "normal" => alert_level = "NORMAL"
           /\ alert_level = "CRITICAL"
                 => ev.br[1] \in {"advertencia", "peligro", "critico"}

\* C18: no task is suspended between the steps of a bus transaction, so the bus
\* accesses of two tasks never interleave inside a transaction.
C18_NoYieldInsideTransaction ==
    bus = BusIdle

\* C18 witness: the gas task has run its ADC transaction while the distance
\* measurement of the slow task is suspended between two polls.
C18_Witness ==
    /\ ev.op = "task_sensors_fast" /\ ev.br = "same" /\ mq2_ready
    /\ slow_pc = "measuring" /\ us.pc \in {"wait_rise", "wait_fall"}
    /\ bus = BusIdle

====
